---- MODULE Spec2Model ----
(***************************************************************************)
(* Model of the pyrfu numeric library functions.  Every function is a      *)
(* stateless request/response computation: Init draws one call (function   *)
(* name and arguments) from bounded sets, and one action per function      *)
(* applies it, leaving the outcome (returned value or raised exception) in *)
(* ret and the caller's argument objects, as the call left them, in arg.   *)
(***************************************************************************)
EXTENDS Integers, Sequences, FiniteSets, TLC

VARIABLES op, arg, ret

vars == <<op, arg, ret>>

(* ----------------------------- bounds ---------------------------------- *)
\* longest time line of a generated series
MaxPts == 3

(* ------------------------ outcomes of a call --------------------------- *)
NotCalled == [exc |-> "pending", line |-> 0, val |-> <<>>]

Raise(e, l) == [exc |-> e, line |-> l, val |-> <<>>]

Return(v) == [exc |-> "none", line |-> 0, val |-> v]

(* ------------------------- numpy / python helpers ---------------------- *)
Min2(a, b) == IF a < b THEN a ELSE b

Max2(a, b) == IF a > b THEN a ELSE b

Abs(a) == IF a < 0 THEN -a ELSE a

\* a[lo:hi] of a one-dimensional array of length len (lo, hi >= 0): its length
SliceLen(len, lo, hi) == Max2(0, Min2(hi, len) - Min2(lo, len))

\* numpy broadcasting of two one-dimensional shapes
Broadcastable(a, b) == a = b \/ a = 1 \/ b = 1

\* a[i] of a one-dimensional axis of length len is in range
IndexOK(i, len) == i < len /\ i >= -len

\* np.arange(lo, hi)
arange(lo, hi) == [i \in 1..Max2(0, hi - lo) |-> lo + i - 1]

\* np.diff
NpDiff(s) == [i \in 1..(Len(s) - 1) |-> s[i + 1] - s[i]]

\* time line of n_pts samples, step ticks apart (the tests' generate_timeline)
TimeLine(step, n_pts) == [i \in 1..n_pts |-> (i - 1) * step]

RECURSIVE Insert(_, _)
Insert(x, s) ==
    IF s = <<>> THEN <<x>>
    ELSE IF x <= Head(s) THEN <<x>> \o s
    ELSE <<Head(s)>> \o Insert(x, Tail(s))

RECURSIVE np_sort(_)
np_sort(s) == IF s = <<>> THEN <<>> ELSE Insert(Head(s), np_sort(Tail(s)))

\* np.median, doubled to stay in the integers; nan for an empty array
Median2(s) ==
    IF s = <<>> THEN [nan |-> TRUE, twice |-> 0]
    ELSE LET t == np_sort(s)
             n == Len(s)
         IN [nan |-> FALSE,
             twice |-> IF n % 2 = 0 THEN t[n \div 2] + t[n \div 2 + 1]
                       ELSE 2 * t[(n + 1) \div 2]]

InSeq(x, s) == \E i \in 1..Len(s) : s[i] = x

(* ------------------------- mms.calculate_epsilon ----------------------- *)
\* vdf.time - n.time: arithmetic of two labelled arrays joins them on the
\* time labels they share, then subtracts the values (the labels themselves)
TimeMinus(t1, t2) ==
    LET common == SelectSeq(t1, LAMBDA t : InSeq(t, t2))
    IN [i \in 1..Len(common) |-> common[i] - common[i]]

\* line 51: np.abs(np.median(np.diff(vdf.time - n.time))) > 0
DifferentTimes(vdf, n) ==
    LET m == Median2(NpDiff(TimeMinus(vdf.time, n.time)))
    IN IF m.nan THEN FALSE ELSE Abs(m.twice) > 0

\* lines 55-58
IntEnergies(kwargs) ==
    IF kwargs = <<>> THEN arange(2, 33)
    ELSE arange(kwargs[1], kwargs[2] + 1)

\* pyrf.resample(sc_pot, n): sc_pot carried to the time line of n, a new object
resample(inp, ref) == [inp EXCEPT !.time = ref.time]

\* pyrf.ts_scalar(time, data): a scalar time series
ts_scalar(time, n_data) ==
    IF Len(time) = n_data THEN Return([time |-> time, n_data |-> n_data])
    ELSE Raise("ValueError", 130)

\* lines 66-67: model_vdf /= 1e18 and vdf /= 1e18 rescale the caller's objects
Rescaled(d) == [d EXCEPT !.scale = @ - 18]

\* the check of lines 74-83 without its else branch: any specie passes
SpecieUnchecked(vdf) == vdf.specie = vdf.specie

\* lines 74-83
SpecieKnown(vdf) == vdf.specie \in {"e", "i"}

\* lines 92-112, one pass: the first exception of the loop body, "none" if none
EnergyLoop(vdf, sc_pot) ==
    LET n_en == vdf.n_en
        n_diff == n_en + 1
    IN IF n_en < 2 THEN Raise("IndexError", 97)
       ELSE IF ~Broadcastable(n_en, SliceLen(n_diff, 1, 34)) THEN Raise("ValueError", 103)
       ELSE IF ~Broadcastable(n_en, SliceLen(n_diff, 0, 33)) THEN Raise("ValueError", 104)
       ELSE IF Max2(n_en, SliceLen(n_diff, 1, 34)) # n_en
               \/ Max2(n_en, SliceLen(n_diff, 0, 33)) # n_en
            THEN Raise("ValueError", 112)
       ELSE IF Len(vdf.time) > Len(sc_pot.time) THEN Raise("IndexError", 95)
       ELSE Return(<<>>)

\* lines 122-127: every energy index of int_energies is used on axis 1
SumLoop(vdf, int_energies) ==
    LET m == Max2(vdf.n_ph, vdf.n_th)
    IN IF \E k \in 1..Len(int_energies) : ~IndexOK(int_energies[k], vdf.n_en)
       THEN Raise("IndexError", 124)
       ELSE IF int_energies # <<>> /\ ~Broadcastable(vdf.n_th, m)
       THEN Raise("ValueError", 126)
       ELSE Return(<<>>)

CalculateEpsilon(a) ==
    LET vdf == a.vdf
        n == a.n
        sc_pot == resample(a.sc_pot, n)
        int_energies == IntEnergies(a.kwargs)
    IN IF DifferentTimes(vdf, n) THEN Raise("RuntimeError", 52)
       ELSE IF ~SpecieKnown(vdf) THEN Raise("ValueError", 83)
       ELSE IF EnergyLoop(vdf, sc_pot).exc # "none" THEN EnergyLoop(vdf, sc_pot)
       ELSE IF ~Broadcastable(vdf.n_ph, vdf.n_th) THEN Raise("ValueError", 120)
       ELSE IF SumLoop(vdf, int_energies).exc # "none" THEN SumLoop(vdf, int_energies)
       ELSE IF ~(Len(n.time) = Len(vdf.time) \/ Len(n.time) = 1) THEN Raise("ValueError", 129)
       ELSE ts_scalar(vdf.time, Len(vdf.time))

\* the caller's objects after the call: the in-place divisions of lines 66-67
\* have run unless line 52 raised first
CalculateEpsilonArgs(a) ==
    IF DifferentTimes(a.vdf, a.n) THEN a
    ELSE [a EXCEPT !.vdf = Rescaled(@), !.model_vdf = Rescaled(@)]

Skymap(step, n_pts, n_en, n_ph, n_th, specie) ==
    [time |-> TimeLine(step, n_pts), n_en |-> n_en, n_ph |-> n_ph, n_th |-> n_th,
     specie |-> specie, scale |-> 0]

Series(step, n_pts) == [time |-> TimeLine(step, n_pts)]

Species == {"e", "i", "bazinga"}

EpsilonArgs ==
    { [vdf |-> Skymap(1, np, ne, nph, 16, sp),
       model_vdf |-> Skymap(1, np, ne, nph, 16, sp),
       n |-> Series(ns, nn),
       sc_pot |-> Series(1, np),
       kwargs |-> kw] :
        np \in 2..MaxPts, nn \in 2..MaxPts, ns \in {1, 2}, ne \in {32, 33},
        nph \in {16, 32}, sp \in Species, kw \in {<<>>, <<4, 32>>} }

calculate_epsilon ==
    /\ op = "calculate_epsilon"
    /\ ret = NotCalled
    /\ ret' = CalculateEpsilon(arg)
    /\ arg' = CalculateEpsilonArgs(arg)
    /\ UNCHANGED op

(* ------------------------------ mms.vdf_omni --------------------------- *)
\* line 13: def vdf_omni(vdf) takes one positional parameter
VdfOmniParams == <<"vdf">>

\* lines 36-56
VdfOmni(a) ==
    IF Len(a.args) # Len(VdfOmniParams) THEN Raise("TypeError", 13)
    ELSE LET vdf == a.args[1]
         IN IF vdf.n_ph # 32 THEN Raise("ValueError", 49)
            ELSE Return([dims |-> <<"time", "energy">>,
                         shape |-> <<Len(vdf.time), vdf.n_en>>])

OmniArgs ==
    { [args |-> <<Skymap(1, np, ne, nph, 16, "i")>> \o m] :
        np \in 2..MaxPts, ne \in {32, 33}, nph \in {16, 32},
        m \in {<<>>, <<"mean">>, <<"sum">>} }

vdf_omni ==
    /\ op = "vdf_omni"
    /\ ret = NotCalled
    /\ ret' = VdfOmni(arg)
    /\ UNCHANGED <<op, arg>>

(* --------------------------- mms.feeps_pitch_angles -------------------- *)
\* line 45-46: telescope_map
telescope_map(key) ==
    IF key \in {"bottom-electron", "top-electron"} THEN <<1, 2, 3, 4, 5, 9, 10, 11, 12>>
    ELSE <<6, 7, 8>>

\* the sensor lists get_feeps_active_eyes may return for a data rate and type:
\* the nominal list with eyes switched off at either end, one eye at least
\* staying active on each side
NominalEyes(var) ==
    IF var.dtype = "ion" THEN <<6, 7, 8>>
    ELSE IF var.tmmode = "brst" THEN <<1, 2, 3, 4, 5, 9, 10, 11, 12>>
    ELSE <<3, 4, 5, 11, 12>>

get_feeps_active_eyes(var) ==
    LET b == NominalEyes(var)
        lists == {SubSeq(b, i, Len(b)) : i \in 1..Len(b)}
                    \cup {SubSeq(b, 1, j) : j \in 1..Len(b)}
    IN { [top |-> t, bottom |-> u] : t \in lists, u \in lists }

\* lines 71-72: zip(np.arange(18), np.hstack([bottom list, top list]))
ZipTelescopes(var) ==
    LET ks == telescope_map("bottom-" \o var.dtype) \o telescope_map("top-" \o var.dtype)
    IN [j \in 1..Min2(18, Len(ks)) |-> <<j - 1, ks[j]>>]

\* lines 73-107, iterations j..end of the loop.  st holds top_tele_idx_map and
\* bot_tele_idx_map (the keys entered so far) and the width of new_pas.
RECURSIVE TelescopeLoop(_, _, _, _)
TelescopeLoop(var, eyes, j, st) ==
    LET zs == ZipTelescopes(var)
    IN IF j > Len(zs) THEN Return(st)
       ELSE LET i == zs[j][1]
                k == zs[j][2]
            IN IF var.tmmode = "srvy"
               THEN LET top == IF i < 8 THEN st.top \cup {k} ELSE st.top
                        bot == IF i < 8 THEN st.bot ELSE st.bot \cup {k}
                    IN IF \E e \in 1..Len(eyes.top) : eyes.top[e] \notin top
                       THEN Raise("KeyError", 97)
                       ELSE IF \E e \in 1..Len(eyes.bottom) : eyes.bottom[e] \notin bot
                       THEN Raise("KeyError", 101)
                       ELSE TelescopeLoop(var, eyes, j + 1,
                              [top |-> top, bot |-> bot,
                               width |-> Len(eyes.top) + Len(eyes.bottom)])
               ELSE TelescopeLoop(var, eyes, j + 1, [st EXCEPT !.width = 18])

\* lines 18-114
FeepsPitchAngles(a) ==
    LET var == a.inp_dset.attrs
        eyes == a.eyes
        loop == TelescopeLoop(var, eyes, 1, [top |-> {}, bot |-> {}, width |-> 18])
    IN IF loop.exc # "none" THEN loop
       ELSE IF loop.val.width # 18 THEN Raise("ValueError", 109)
       ELSE Return([type |-> "DataArray", dims |-> <<"time", "idx">>,
                    shape |-> <<Len(a.inp_dset.time), 18>>])

\* result[0] of a returned value: indexing a DataArray gives a DataArray
FirstElement(v) ==
    IF v.type = "DataArray" /\ v.shape[1] > 0
    THEN [type |-> "DataArray", dims |-> Tail(v.dims), shape |-> Tail(v.shape)]
    ELSE [type |-> "none", dims |-> <<>>, shape |-> <<>>]

FeepsArgs ==
    UNION { { [inp_dset |-> [time |-> TimeLine(1, np),
                             attrs |-> [mmsId |-> id, tmmode |-> tm, dtype |-> dt]],
               b_bcs |-> Series(1, np),
               eyes |-> e] :
                e \in get_feeps_active_eyes([tmmode |-> tm, dtype |-> dt]) } :
            np \in {MaxPts}, id \in 1..4, tm \in {"srvy", "brst"}, dt \in {"electron", "ion"} }

feeps_pitch_angles ==
    /\ op = "feeps_pitch_angles"
    /\ ret = NotCalled
    /\ ret' = FeepsPitchAngles(arg)
    /\ UNCHANGED <<op, arg>>

(* ------------------------------ pyrf.time_clip ------------------------- *)
\* Instants are counted in ticks of 100 ns from a reference epoch: a time
\* string or a datetime64 value names a tick; a datetime.datetime object
\* holds whole microseconds.
TickPerUs == 10

\* dateutil parser.parse(str): a datetime; digits past the microsecond are cut
parse(str) == [cls |-> "datetime", us |-> str \div TickPerUs]

\* astropy Time(val, format="datetime").datetime64: val must be a datetime
TimeDatetime64(val) ==
    IF val.cls = "datetime" THEN Return(val.us * TickPerUs)
    ELSE Raise("ValueError", 55)

\* bisect.bisect_left(a, x, lo, hi)
RECURSIVE bisect_left_rec(_, _, _, _)
bisect_left_rec(a, x, lo, hi) ==
    IF lo >= hi THEN lo
    ELSE LET mid == (lo + hi) \div 2
         IN IF a[mid + 1] < x THEN bisect_left_rec(a, x, mid + 1, hi)
            ELSE bisect_left_rec(a, x, lo, mid)

bisect_left(a, x) == bisect_left_rec(a, x, 0, Len(a))

\* a right bisection that stops before the samples equal to x
bisect_right_exclusive(a, x) == bisect_left_rec(a, x, 0, Len(a))

\* bisect.bisect_right(a, x, lo, hi)
RECURSIVE bisect_right_rec(_, _, _, _)
bisect_right_rec(a, x, lo, hi) ==
    IF lo >= hi THEN lo
    ELSE LET mid == (lo + hi) \div 2
         IN IF x < a[mid + 1] THEN bisect_right_rec(a, x, lo, mid)
            ELSE bisect_right_rec(a, x, mid + 1, hi)

bisect_right(a, x) == bisect_right_rec(a, x, 0, Len(a))

\* a[lo:hi] for 0 <= lo, hi <= len(a)
Slice(a, lo, hi) == SubSeq(a, lo + 1, hi)

\* lines 39-53: t_start and t_stop, or the exception of the branch taken
TintBounds(tint) ==
    IF tint.type = "DataArray"
    THEN IF tint.time = <<>> THEN Raise("IndexError", 40)
         ELSE Return(<<[cls |-> "datetime64", ticks |-> tint.time[1]],
                       [cls |-> "datetime64", ticks |-> tint.time[Len(tint.time)]]>>)
    ELSE IF tint.type = "ndarray"
    THEN IF tint.elems = <<>> THEN Raise("IndexError", 43)
         ELSE IF tint.elems[1].cls = "datetime" /\ tint.elems[Len(tint.elems)].cls = "datetime"
         THEN Raise("AttributeError", 44)
         ELSE Raise("TypeError", 47)
    ELSE IF tint.type = "list"
    THEN IF tint.elems = <<>> THEN Raise("IndexError", 50)
         ELSE Return(<<parse(tint.elems[1]), parse(tint.elems[Len(tint.elems)])>>)
    ELSE Raise("TypeError", 53)

\* lines 58-62: the coordinates of the output, one per dimension
ClipCoords(inp, idx_min, idx_max) ==
    [k \in DOMAIN inp.coords |->
        IF k = "time" THEN Slice(inp.time, idx_min, idx_max) ELSE inp.coords[k]]

\* lines 17-67
TimeClip(a) ==
    LET inp == a.inp
        tb == TintBounds(a.tint)
    IN IF inp.type # "DataArray" THEN Raise("TypeError", 37)
       ELSE IF tb.exc # "none" THEN tb
       ELSE IF TimeDatetime64(tb.val[1]).exc # "none" THEN TimeDatetime64(tb.val[1])
       ELSE IF TimeDatetime64(tb.val[2]).exc # "none" THEN TimeDatetime64(tb.val[2])
       ELSE LET idx_min == bisect_left(inp.time, TimeDatetime64(tb.val[1]).val)
                idx_max == bisect_right(inp.time, TimeDatetime64(tb.val[2]).val)
            IN Return([type |-> "DataArray",
                       time |-> Slice(inp.time, idx_min, idx_max),
                       data |-> Slice(inp.data, idx_min, idx_max),
                       coords |-> ClipCoords(inp, idx_min, idx_max),
                       dims |-> inp.dims,
                       attrs |-> inp.attrs,
                       time_attrs |-> inp.time_attrs])

\* the ticks at which samples and interval bounds are drawn
ClipTicks == {0, 5, 10, 20}

\* time-sorted sample times of at most MaxPts samples
SortedTimes ==
    { t \in UNION { [1..n -> ClipTicks] : n \in 0..MaxPts } :
        \A i \in 1..(Len(t) - 1) : t[i] <= t[i + 1] }

\* a pyrfu time series: one index coordinate per dimension; sample i carries
\* the value 100 + i
TSeries(t, vec) ==
    [type |-> "DataArray", time |-> t, data |-> [i \in 1..Len(t) |-> 100 + i],
     coords |-> IF vec THEN [time |-> t, comp |-> <<"x", "y", "z">>] ELSE [time |-> t],
     dims |-> IF vec THEN <<"time", "comp">> ELSE <<"time">>,
     attrs |-> [UNITS |-> "nT"], time_attrs |-> [UNITS |-> "ns"]]

TintForms ==
    { [type |-> "list", elems |-> e] : e \in UNION { [1..n -> ClipTicks] : n \in 1..2 } }
    \cup { [type |-> "DataArray", time |-> <<t1, t2>>] : t1 \in {0, 10}, t2 \in {10, 20} }
    \cup { [type |-> "ndarray",
            elems |-> <<[cls |-> "datetime64", ticks |-> t1], [cls |-> "datetime64", ticks |-> t2]>>] :
              t1 \in {0, 10}, t2 \in {10, 20} }
    \cup { [type |-> "ndarray",
            elems |-> <<[cls |-> "datetime", us |-> 0], [cls |-> "datetime", us |-> 2]>>] }
    \cup { [type |-> "tuple", elems |-> <<0, 20>>], [type |-> "NoneType"], [type |-> "str"] }

TimeClipArgs ==
    { [inp |-> TSeries(t, vec), tint |-> ti] : t \in SortedTimes, vec \in BOOLEAN, ti \in TintForms }
    \cup { [inp |-> [type |-> "ndarray"], tint |-> ti] : ti \in TintForms }

time_clip ==
    /\ op = "time_clip"
    /\ ret = NotCalled
    /\ ret' = TimeClip(arg)
    /\ UNCHANGED <<op, arg>>

(* ------------------------------ pyrf.extend_tint ----------------------- *)
TickPerMs == 1000 * TickPerUs

TickPerSec == 1000 * TickPerMs

\* line 48: the default extension, 60 s to either side
DefaultExt == <<-60 * TickPerSec, 60 * TickPerSec>>

\* line 51: Time(date_parse(bound), format="datetime").unix, in ticks
Unix(str) == parse(str).us * TickPerUs

\* line 58: Time(bound, format="unix").iso prints the instant with three
\* decimals of the second: the nearest millisecond, either one at a tie
Iso(bound) ==
    LET lo == (bound \div TickPerMs) * TickPerMs
        r == bound - lo
    IN IF 2 * r < TickPerMs THEN {lo}
       ELSE IF 2 * r > TickPerMs THEN {lo + TickPerMs}
       ELSE {lo, lo + TickPerMs}

\* extend_tint with the left extension applied to both bounds
ExtendTintLeftOnly(a) ==
    LET ext == IF a.ext = <<>> THEN DefaultExt ELSE a.ext
    IN { <<s, e>> : s \in Iso(Unix(a.tint[1]) + ext[1]), e \in Iso(Unix(a.tint[2]) + ext[1]) }

\* lines 19-62: the intervals extend_tint(tint, ext) can return
ExtendTint(a) ==
    LET ext == IF a.ext = <<>> THEN DefaultExt ELSE a.ext
    IN { <<s, e>> : s \in Iso(Unix(a.tint[1]) + ext[1]), e \in Iso(Unix(a.tint[2]) + ext[2]) }

\* interval bounds: whole milliseconds, and bounds with finer digits
TintTicks == {0, 3, 4 * TickPerUs * 100, 2 * TickPerMs, TickPerSec}

\* extensions: whole seconds, whole milliseconds, and finer ones
ExtTicks == {-60 * TickPerSec, -TickPerMs, 0, 4 * TickPerUs * 100, 5 * TickPerUs * 100, 100 * TickPerSec}

ExtendTintArgs ==
    { [tint |-> <<s, e>>, ext |-> x, leg |-> 1, first |-> <<>>] :
        s \in TintTicks, e \in TintTicks,
        x \in {<<>>} \cup { <<a, b>> : a \in ExtTicks, b \in ExtTicks } }

extend_tint ==
    /\ op = "extend_tint"
    /\ ret = NotCalled
    /\ \E r \in ExtendTint(arg) : ret' = Return(r)
    /\ UNCHANGED <<op, arg>>

\* the caller of the round trip: extend_tint(extend_tint(tint, [a, b]), [-a, -b])
extend_tint_back ==
    /\ op = "extend_tint"
    /\ ret.exc = "none"
    /\ arg.leg = 1
    /\ arg.ext # <<>>
    /\ arg' = [tint |-> ret.val, ext |-> <<-arg.ext[1], -arg.ext[2]>>, leg |-> 2,
               first |-> arg.tint]
    /\ \E r \in ExtendTint(arg') : ret' = Return(r)
    /\ UNCHANGED op

(* ------------------------------ pyrf.integrate ------------------------- *)
\* line 62: np.hstack([time_tmp, data_tmp]) with a one-dimensional time_tmp
\* joins along axis 0 and needs data_tmp one-dimensional too
Hstack(time, inp) ==
    IF inp.ndim = 1 THEN Return([ndim |-> 1, len |-> Len(time) + Len(inp.data)])
    ELSE Raise("ValueError", 62)

\* np.min, np.argmin (first position of the least value, from 1)
NpMin(s) == CHOOSE m \in {s[i] : i \in 1..Len(s)} : \A i \in 1..Len(s) : m <= s[i]

ArgMin(s) == CHOOSE i \in 1..Len(s) : s[i] = NpMin(s) /\ \A j \in 1..(i - 1) : s[j] # NpMin(s)

\* np.delete(s, i)
Delete(s, i) == SubSeq(s, 1, i - 1) \o SubSeq(s, i + 1, Len(s))

\* lines 66-74: the threshold base when time_step is None
DefaultTimeStep(time) ==
    LET time_steps == NpDiff(time)
    IN IF time_steps = <<>> THEN Raise("ValueError", 69)
       ELSE IF Delete(time_steps, ArgMin(time_steps)) = <<>> THEN Raise("ValueError", 74)
       ELSE Return(NpMin(Delete(time_steps, ArgMin(time_steps))))

\* lines 64 and 76: the step before each sample, 0 across a data gap
GapDt(time, time_step) ==
    [i \in 1..Len(time) |->
        LET d == IF i = 1 THEN 0 ELSE time[i] - time[i - 1]
        IN IF d > 3 * time_step THEN 0 ELSE d]

\* a sample is a number or NaN
Num(v) == [nan |-> FALSE, v |-> v]

NaN == [nan |-> TRUE, v |-> 0]

IsNan(x) == x.nan

\* lines 79-82: np.cumsum over the samples that are not NaN
RECURSIVE CumSum(_, _, _)
CumSum(data, dt, i) ==
    IF i = 0 THEN <<>>
    ELSE LET before == CumSum(data, dt, i - 1)
             ok == {j \in 1..(i - 1) : ~IsNan(data[j])}
             last == IF ok = {} THEN Num(0)
                     ELSE before[CHOOSE j \in ok : \A k \in ok : k <= j]
         IN Append(before, IF IsNan(data[i]) THEN data[i]
                           ELSE Num(last.v + data[i].v * dt[i]))

\* lines 20-87
Integrate(a) ==
    LET inp == a.inp
    IN IF inp.type = "NoneType" THEN Raise("ValueError", 53)
       ELSE IF inp.type # "DataArray" THEN Raise("TypeError", 56)
       ELSE LET x == Hstack(inp.time, inp)
            IN IF x.exc # "none" THEN x
               ELSE IF x.val.ndim < 2 THEN Raise("IndexError", 64)
               ELSE LET ts == IF a.time_step = <<>> THEN DefaultTimeStep(inp.time)
                              ELSE Return(a.time_step[1])
                    IN IF ts.exc # "none" THEN ts
                       ELSE Return([time |-> inp.time,
                                    data |-> CumSum(inp.data, GapDt(inp.time, ts.val), Len(inp.time)),
                                    time_step |-> ts.val,
                                    units |-> inp.units \o "*s"])

\* sample times in seconds, from the steps between them
RECURSIVE TimesOf(_)
TimesOf(steps) ==
    IF steps = <<>> THEN <<0>>
    ELSE LET t == TimesOf(SubSeq(steps, 1, Len(steps) - 1))
         IN Append(t, t[Len(t)] + steps[Len(steps)])

\* time lines of MaxPts samples with steps of 1, 2 or 7 seconds
StepTimes == { TimesOf(st) : st \in [1..(MaxPts - 1) -> {1, 2, 7}] }

IntegrateArgs ==
    { [inp |-> [type |-> "DataArray", time |-> t, data |-> d, ndim |-> nd, units |-> "mV/m"],
       time_step |-> ts] :
        t \in StepTimes,
        d \in {[i \in 1..MaxPts |-> Num(1)], [i \in 1..MaxPts |-> Num(-2 * i)],
               [i \in 1..MaxPts |-> IF i = 2 THEN NaN ELSE Num(3)]},
        nd \in {1, 2}, ts \in {<<>>, <<1>>, <<2>>} }
    \cup { [inp |-> [type |-> ty], time_step |-> <<>>] : ty \in {"NoneType", "list", "ndarray"} }

integrate ==
    /\ op = "integrate"
    /\ ret = NotCalled
    /\ ret' = Integrate(arg)
    /\ UNCHANGED <<op, arg>>

(* ------------------------------ pyrf.wave_fft -------------------------- *)
\* np.round(a / b) for b > 0: to the nearest integer, a tie to the even one
RoundDiv(a, b) ==
    LET q == a \div b
        r == a - q * b
    IN IF 2 * r < b THEN q
       ELSE IF 2 * r > b THEN q + 1
       ELSE IF q % 2 = 0 THEN q ELSE q + 1

\* scipy.signal.spectrogram(x, fs, window, nperseg, noverlap, mode="complex"):
\* the shapes of the frequencies f, the segment times t and the spectrogram
SpectrogramShapes(n, n_per_seg, n_overlap) ==
    LET nperseg == IF n_per_seg > n THEN n ELSE n_per_seg
    IN IF nperseg < 1 THEN Raise("ValueError", 60)
       ELSE IF n_overlap >= nperseg THEN Raise("ValueError", 60)
       ELSE LET n_f == nperseg \div 2 + 1
                n_t == (n - n_overlap) \div (nperseg - n_overlap)
            IN Return([f |-> [name |-> "f", shape |-> <<n_f>>],
                       t |-> [name |-> "t", shape |-> <<n_t>>],
                       s |-> [name |-> "s", shape |-> <<n_f, n_t>>]])

\* lines 18-63.  The sampling step of x is a.dt seconds; fs, when given, is in Hz
WaveFft(a) ==
    IF a.x.type # "DataArray" THEN Raise("AssertionError", 51)
    ELSE LET n_per_seg == IF a.fs = <<>> THEN RoundDiv(a.frame_length, a.x.dt)
                          ELSE a.frame_length * a.fs[1]
             n_overlap == IF a.fs = <<>> THEN RoundDiv(a.frame_overlap, a.x.dt)
                          ELSE a.frame_overlap * a.fs[1]
             sp == SpectrogramShapes(a.x.n, n_per_seg, n_overlap)
         IN IF sp.exc # "none" THEN sp
            ELSE Return(<<sp.val.f, sp.val.t, sp.val.s>>)

WaveFftArgs ==
    { [x |-> [type |-> "DataArray", n |-> n, dt |-> dt],
       frame_overlap |-> fo, frame_length |-> fl, fs |-> fs] :
        n \in {4 * MaxPts, 8 * MaxPts}, dt \in {1, 2}, fo \in {1, 2, 10}, fl \in {4, 5, 20},
        fs \in {<<>>, <<1>>, <<2>>} }
    \cup { [x |-> [type |-> ty], frame_overlap |-> 10, frame_length |-> 20, fs |-> <<>>] :
            ty \in {"NoneType", "ndarray"} }

wave_fft ==
    /\ op = "wave_fft"
    /\ ret = NotCalled
    /\ ret' = WaveFft(arg)
    /\ UNCHANGED <<op, arg>>

(* ---------------------- pyrf.mean_bins, pyrf.median_bins --------------- *)
\* line 16: bins=10
DefaultBins == 10

NBins(a) == IF a.bins = <<>> THEN DefaultBins ELSE a.bins[1]

\* lines 76-77 and 82-83: sample k lies strictly between the edges i and i+1
\* (i from 0) of np.linspace(min(x), max(x), bins + 1)
InBin(x, k, i, bins) ==
    LET x_sort == np_sort(x)
        lo == x_sort[1]
        hi == x_sort[Len(x)]
    IN /\ x[k] * bins > lo * bins + i * (hi - lo)
       /\ x[k] * bins < lo * bins + (i + 1) * (hi - lo)

\* y[idx_l * idx_r]: the values of y picked by the mask, in order
RECURSIVE Masked(_, _, _, _, _)
Masked(x, y, k, i, bins) ==
    IF k > Len(x) THEN <<>>
    ELSE (IF InBin(x, k, i, bins) THEN <<y[k]>> ELSE <<>>) \o Masked(x, y, k + 1, i, bins)

\* np.abs of an array
NpAbs(s) == [k \in 1..Len(s) |-> Abs(s[k])]

RECURSIVE SumSeq(_)
SumSeq(s) == IF s = <<>> THEN 0 ELSE Head(s) + SumSeq(Tail(s))

\* np.mean: the fraction sum / n, nan for an empty array
NpMean(s) == [nan |-> s = <<>>, sum |-> SumSeq(s), n |-> Len(s)]

\* np.std: the square root of sq / n^2, nan for an empty array
NpStd(s) ==
    [nan |-> s = <<>>,
     sq |-> Len(s) * SumSeq([k \in 1..Len(s) |-> s[k] * s[k]]) - SumSeq(s) * SumSeq(s),
     n |-> Len(s)]

\* line 89: the bin centres, doubled and times bins to stay in the integers
BinCentres(x, bins) ==
    LET x_sort == np_sort(x)
        lo == x_sort[1]
        hi == x_sort[Len(x)]
    IN [i \in 1..bins |-> 2 * (lo * bins + (i - 1) * (hi - lo)) + (hi - lo)]

\* lines 91-93: the Dataset with data, sigma and bins
BinsDataset(m, sg, centres) ==
    [type |-> "Dataset", data |-> m, sigma |-> sg, bins |-> centres]

\* lines 67-95 of mean_bins.py
MeanBins(a) ==
    IF a.x.type # "DataArray" THEN Raise("AssertionError", 67)
    ELSE IF a.y.type \notin {"NoneType", "DataArray"} THEN Raise("AssertionError", 68)
    ELSE LET x == a.x.data
             y == IF a.y.type = "NoneType" THEN x ELSE a.y.data
             bins == NBins(a)
         IN IF x = <<>> THEN Raise("IndexError", 77)
            ELSE LET y_bins(i) == NpAbs(Masked(x, y, 1, i - 1, bins))
                     m == [i \in 1..bins |-> NpMean(y_bins(i))]
                     sg == [i \in 1..bins |-> NpStd(y_bins(i))]
                     centres == BinCentres(x, bins)
                 IN Return([type |-> "tuple",
                            items |-> <<centres, m, BinsDataset(m, sg, centres)>>])

\* lines 65-96 of pyrf/median_bins.py
MedianBins(a) ==
    IF a.x.type = "NoneType" THEN Raise("ValueError", 66)
    ELSE LET x == a.x.data
             y == IF a.y.type = "NoneType" THEN x ELSE a.y.data
             bins == NBins(a)
         IN IF x = <<>> THEN Raise("IndexError", 78)
            ELSE LET y_bins(i) == NpAbs(Masked(x, y, 1, i - 1, bins))
                 IN Return(BinsDataset([i \in 1..bins |-> Median2(y_bins(i))],
                                       [i \in 1..bins |-> NpStd(y_bins(i))],
                                       BinCentres(x, bins)))

\* lines 70-92 of build/lib/pyrfu/pyrf/median_bins 2.py
MedianBinsBuild(a) ==
    IF a.x.type # "DataArray" THEN Raise("AssertionError", 70)
    ELSE IF a.y.type \notin {"NoneType", "DataArray"} THEN Raise("AssertionError", 71)
    ELSE LET x == a.x.data
             bins == NBins(a)
         IN IF x = <<>> THEN Raise("IndexError", 74)
            ELSE IF bins > 0 /\ a.y.type = "NoneType" THEN Raise("AttributeError", 82)
            ELSE LET y_bins(i) == NpAbs(Masked(x, a.y.data, 1, i - 1, bins))
                 IN Return(BinsDataset([i \in 1..bins |-> Median2(y_bins(i))],
                                       [i \in 1..bins |-> NpStd(y_bins(i))],
                                       BinCentres(x, bins)))

\* the values of the binned samples
BinValues == {-2, 1, 3}

BinSeries == { [type |-> "DataArray", data |-> d] : d \in [1..MaxPts -> BinValues] }

BinsArgs ==
    { [x |-> x, y |-> y, bins |-> b, copy |-> c] :
        x \in BinSeries, y \in BinSeries \cup {[type |-> "NoneType"]},
        b \in {<<1>>, <<2>>}, c \in {"pyrf", "build"} }
    \cup { [x |-> [type |-> "DataArray", data |-> <<0, 1, 3>>], y |-> [type |-> "NoneType"],
            bins |-> <<>>, copy |-> c] : c \in {"pyrf", "build"} }
    \cup { [x |-> [type |-> "NoneType"], y |-> [type |-> "NoneType"], bins |-> <<1>>, copy |-> c] :
            c \in {"pyrf", "build"} }

mean_bins ==
    /\ op = "mean_bins"
    /\ ret = NotCalled
    /\ ret' = MeanBins(arg)
    /\ UNCHANGED <<op, arg>>

\* arg.copy tells which of the two copies of median_bins is called
median_bins ==
    /\ op = "median_bins"
    /\ ret = NotCalled
    /\ ret' = IF arg.copy = "pyrf" THEN MedianBins(arg) ELSE MedianBinsBuild(arg)
    /\ UNCHANGED <<op, arg>>

(* ----------------------------- rotate_tensor --------------------------- *)
\* isinstance(x, str)
IsStr(x) == x.type = "str"

\* s[0] of the flag strings a call passes
FlagInitial(s) ==
    CASE s = "fac" -> "f"
      [] s = "rot" -> "r"
      [] s = "gse" -> "g"
      [] s = "pp" -> "p"
      [] s = "qq" -> "q"
      [] OTHER -> "x"

\* np.linalg.norm(v) ** 2
NormSq(v) == SumSeq([k \in 1..Len(v) |-> v[k] * v[k]])

\* np.cross of two 3-vectors
Cross(a, b) ==
    <<a[2] * b[3] - a[3] * b[2], a[3] * b[1] - a[1] * b[3], a[1] * b[2] - a[2] * b[1]>>

\* r / np.linalg.norm(r): the components v over the square root of div
Unit(v) == [v |-> v, div |-> NormSq(v)]

\* line 135, r_x /= np.linalg.norm(r_x, keepdims=True): the division writes
\* into the array object the caller passed
InPlaceNormalised(r) == [r EXCEPT !.div = NormSq(r.v)]

\* pyrf.ts_tensor_xyz(time, data): a tensor time series
ts_tensor_xyz(time, basis, extra, units) ==
    [type |-> "DataArray", time |-> time, shape |-> <<Len(time), 3, 3>>,
     basis |-> basis, extra |-> extra, units |-> units]

\* lines 66-74: the source line of the k-th of the six terms' first assignment
TermLine == <<66, 67, 68, 70, 71, 74>>

\* lines 49-79: the position of the flag, the time line, and whether p_tensor
\* is a time series (lines 59, 76) or the bare array of line 56
LoadTensor(args) ==
    IF Len(args) < 2 THEN Raise("IndexError", 49)
    ELSE IF IsStr(args[2]) THEN
        IF args[1].ndim = 3
        THEN Return([pos |-> 1, series |-> FALSE, times |-> args[1].time])
        ELSE IF args[1].cols # 9 THEN Raise("ValueError", 58)
        ELSE Return([pos |-> 1, series |-> TRUE, times |-> args[1].time])
    ELSE IF Len(args) < 7 THEN Raise("IndexError", 61)
    ELSE IF IsStr(args[7]) THEN
        LET n == Len(args[1].time)
            bad == {k \in 1..6 : Len(args[k].time) \notin {1, n}}
        IN IF bad # {}
           THEN Raise("ValueError", TermLine[CHOOSE k \in bad : \A j \in bad : k <= j])
           ELSE Return([pos |-> 6, series |-> TRUE, times |-> args[1].time])
    ELSE Raise("SystemError", 79)

\* lines 153-191: np.matmul is a generalized ufunc, which a DataArray operand
\* refuses; the bare array of line 56 is rotated sample by sample
Rotate(args, p, basis, extra) ==
    IF p.series /\ Len(p.times) > 0 THEN {Raise("NotImplementedError", 158)}
    ELSE {Return(ts_tensor_xyz(p.times, basis, extra, args[1].units))}

\* lines 94-108: the optional flag of the additional rotation
ExtraFlag(x) ==
    IF IsStr(x) /\ FlagInitial(x.s) = "p" THEN "pp"
    ELSE IF IsStr(x) /\ FlagInitial(x.s) = "q" THEN "qq"
    ELSE "unknown"

\* lines 85-119: field-aligned coordinates
FacBranch(args, p) ==
    LET nargin == Len(args) IN
    IF nargin = p.pos THEN {Raise("ValueError", 89)}
    ELSE IF nargin < p.pos + 2 THEN {Raise("IndexError", 91)}
    ELSE IF ~p.series THEN {Raise("AttributeError", 92), Raise("TypeError", 92)}
    ELSE IF nargin = 4 /\ ExtraFlag(args[4]) = "unknown" THEN {Raise("ValueError", 100)}
    ELSE IF nargin = 9 /\ ExtraFlag(args[9]) = "unknown" THEN {Raise("ValueError", 108)}
    ELSE Rotate(args, p, <<"b", "bx(1,0,0)xb", "bx(1,0,0)">>,
                IF nargin = 4 THEN ExtraFlag(args[4])
                ELSE IF nargin = 9 THEN ExtraFlag(args[9]) ELSE "none")

\* lines 121-148: user defined coordinates
RotBranch(args, p) ==
    LET nargin == Len(args)
        vectors == SubSeq(args, p.pos + 2, nargin)
    IN
    IF nargin = p.pos THEN {Raise("ValueError", 125)}
    ELSE IF Len(vectors) = 1 THEN
        LET r_x == vectors[1]
            r_z == Cross(r_x.v, <<0, 1, 0>>)
        IN IF Len(r_x.v) # 3 THEN {Raise("TypeError", 133)}
           ELSE IF r_x.type = "ndarray" /\ r_x.dtype = "int64" THEN {Raise("TypeError", 135)}
           ELSE Rotate(args, p, <<Unit(r_x.v), Unit(Cross(r_z, r_x.v)), Unit(r_z)>>, "none")
    ELSE IF Len(vectors) = 3 THEN
        IF \E k \in 1..3 : Len(vectors[k].v) \notin {1, 3} THEN {Raise("ValueError", 148)}
        ELSE Rotate(args, p, [k \in 1..3 |-> Unit(vectors[k].v)], "none")
    ELSE {Raise("TypeError", 146)}

\* lines 46-191: the outcomes of one call
RotateTensor(args) ==
    LET p == LoadTensor(args) IN
    IF p.exc # "none" THEN {p}
    ELSE LET flag == FlagInitial(args[p.val.pos + 1].s) IN
         IF flag = "f" THEN FacBranch(args, p.val)
         ELSE IF flag = "r" THEN RotBranch(args, p.val)
         ELSE {Raise("ValueError", 151)}

\* the caller's argument objects after the call: line 135 is reached with a
\* single float array of three components
RotateTensorArgs(args) ==
    LET p == LoadTensor(args) IN
    IF /\ p.exc = "none"
       /\ FlagInitial(args[p.val.pos + 1].s) = "r"
       /\ Len(args) = p.val.pos + 2
       /\ Len(args[p.val.pos + 2].v) = 3
       /\ args[p.val.pos + 2].type = "ndarray"
       /\ args[p.val.pos + 2].dtype = "float64"
    THEN [args EXCEPT ![p.val.pos + 2] = InPlaceNormalised(@)]
    ELSE args

Str(s) == [type |-> "str", s |-> s]

\* a pressure or temperature series of n samples: (n, 3, 3), (n, cols) or (n,)
Tensors ==
    {[type |-> "DataArray", ndim |-> d[1], cols |-> d[2], time |-> TimeLine(1, n), units |-> u] :
        d \in {<<3, 9>>, <<2, 9>>, <<2, 6>>}, n \in 1..MaxPts, u \in {<<>>, <<"nPa">>}}

Terms ==
    {[type |-> "DataArray", ndim |-> 1, cols |-> 1, time |-> TimeLine(1, n), units |-> <<"nPa">>] :
        n \in 1..MaxPts}

\* a background magnetic field on its own time line
Fields ==
    {[type |-> "DataArray", ndim |-> 2, cols |-> 3, time |-> TimeLine(2, n), units |-> <<"nT">>] :
        n \in 1..MaxPts}

\* direction vectors as the caller holds them: components v over sqrt(div)
Vectors ==
    {[type |-> k[1], dtype |-> k[2], v |-> v, div |-> 1] :
        k \in {<<"ndarray", "float64">>, <<"ndarray", "int64">>, <<"list", "object">>},
        v \in {<<1, 0, 0>>, <<2, 0, 0>>, <<1, 1, 0>>, <<0, 1, 0>>, <<1, 2>>}}

Spacecraft == {[type |-> "int", n |-> n] : n \in 1..4}

\* three direction vectors, the last one possibly of two components
Triples ==
    {<<x, y, z>> :
        x \in {r \in Vectors : r.type = "ndarray" /\ r.dtype = "float64" /\ Len(r.v) = 3},
        y \in {r \in Vectors : r.v = <<0, 1, 0>>},
        z \in {[type |-> "list", dtype |-> "object", v |-> v, div |-> 1] : v \in {<<0, 0, 3>>, <<1, 2>>}}}

\* what follows the flag in a call
Trailing ==
    {<<>>}
    \cup {<<b>> : b \in Fields}
    \cup {<<b, Str(e)>> : b \in Fields, e \in {"pp", "qq", "xx"}}
    \cup {<<x>> : x \in Vectors}
    \cup {<<x, x>> : x \in {r \in Vectors : r.v = <<0, 1, 0>>}}
    \cup Triples
    \cup {<<n>> : n \in Spacecraft}

\* the flag a trailing part is meant for
FlagsFor(rest) ==
    IF rest = <<>> THEN {"fac", "rot", "gse"}
    ELSE IF rest[1].type = "DataArray" THEN {"fac"}
    ELSE IF rest[1].type = "int" THEN {"gse"}
    ELSE {"rot"}

RotateTensorCalls ==
    {<<t>> : t \in Tensors}
    \cup {<<t, t, t, t, t, t, t>> : t \in Terms}
    \cup UNION {{<<t, Str(f)>> \o rest : t \in Tensors, f \in FlagsFor(rest)} : rest \in Trailing}
    \cup UNION {{<<t, u, t, t, t, t, Str(f)>> \o rest : t \in Terms, u \in Terms, f \in FlagsFor(rest)} :
                  rest \in Trailing}

rotate_tensor ==
    /\ op = "rotate_tensor"
    /\ ret = NotCalled
    /\ ret' \in RotateTensor(arg.args)
    /\ arg' = [arg EXCEPT !.args = RotateTensorArgs(@)]
    /\ UNCHANGED op

(* ------------- norm, histogram, medfilt, mean, convert_fac ------------- *)
None == [type |-> "NoneType"]

\* isinstance(x, xr.DataArray)
IsDataArray(x) == x.type = "DataArray"

\* the sample of row i, column j of a test field
FieldVal(i, j) == ((3 * i + 2 * j) % 5) - 2

\* a time series of n samples: 1-D when comps = 0, else (n, comps); data holds
\* one row per sample, of one value for a 1-D series and of the nine terms for
\* a tensor series (n, 3, 3)
Field(n, comps) ==
    [type |-> "DataArray",
     ndim |-> IF comps = 0 THEN 1 ELSE IF comps = 9 THEN 3 ELSE 2,
     time |-> TimeLine(1, n),
     data |-> [i \in 1..n |-> [j \in 1..Max2(comps, 1) |-> FieldVal(i, j)]]]

\* the length of a row of data: inp.shape[1] of a field of two dimensions
Comps(inp) == Len(inp.data[1])

\* norm with the type check ahead of the None check
NormTypeFirst(inp) ==
    IF ~IsDataArray(inp) THEN Raise("TypeError", 41)
    ELSE IF inp.ndim < 2 THEN Raise("AxisError", 43)
    ELSE Return([type |-> "DataArray", ndim |-> 1, time |-> inp.time,
                 data |-> [i \in 1..Len(inp.data) |-> [sq |-> NormSq(inp.data[i])]]])

\* norm.py lines 37-45: the squares of the magnitudes, sq, under the root
Norm(inp) ==
    IF inp.type = "NoneType" THEN Raise("ValueError", 38)
    ELSE IF ~IsDataArray(inp) THEN Raise("TypeError", 41)
    ELSE IF inp.ndim < 2 THEN Raise("AxisError", 43)
    ELSE Return([type |-> "DataArray", ndim |-> 1, time |-> inp.time,
                 data |-> [i \in 1..Len(inp.data) |-> [sq |-> NormSq(inp.data[i])]]])

\* ndarray.flatten of the data of a field
RECURSIVE Flatten(_)
Flatten(rows) == IF rows = <<>> THEN <<>> ELSE Head(rows) \o Flatten(Tail(rows))

\* np.histogram: nbins equal bins over [min, max], the last one closed; a
\* single value spreads the range to [min - 1/2, max + 1/2]
HistBin(x, lo, hi, nbins) ==
    IF lo = hi THEN nbins \div 2 + 1
    ELSE IF x = hi THEN nbins
    ELSE ((x - lo) * nbins) \div (hi - lo) + 1

\* histogram.py lines 27-38: counts (densities count / (n * width) when
\* normed) over the bin centres num / den; np.histogram lost its normed
\* keyword in numpy 1.24, where line 33 is a TypeError
Histogram(a) ==
    LET inp == a.inp IN
    IF inp.type = "NoneType" THEN {Raise("ValueError", 28)}
    ELSE IF ~IsDataArray(inp) THEN {Raise("TypeError", 31)}
    ELSE LET d == Flatten(inp.data)
             s == np_sort(d)
             lo == s[1]
             hi == s[Len(s)]
             span == IF lo = hi THEN 1 ELSE hi - lo
             base == IF lo = hi THEN 2 * lo - 1 ELSE 2 * lo
             count == [i \in 1..a.nbins |->
                         Cardinality({k \in 1..Len(d) : HistBin(d[k], lo, hi, a.nbins) = i})]
         IN {Raise("TypeError", 33),
             Return([type |-> "DataArray", dims |-> <<"bins">>,
                     bins |-> [i \in 1..a.nbins |->
                                 [num |-> base * a.nbins + (2 * i - 1) * span, den |-> 2 * a.nbins]],
                     data |-> [i \in 1..a.nbins |->
                                 [count |-> count[i],
                                  over |-> IF a.normed THEN <<Len(d), span, a.nbins>> ELSE <<>>]]])}

\* scipy.signal.medfilt of one column: the median of the k samples around
\* each sample, zeros beyond the ends
MedFilt1(s, k) ==
    LET h == (k - 1) \div 2
        at(i) == IF i < 1 \/ i > Len(s) THEN 0 ELSE s[i]
    IN [i \in 1..Len(s) |-> np_sort([w \in 1..k |-> at(i - h + w - 1)])[h + 1]]

\* medfilt.py lines 59-66: the kernel size, odd
KernelSize(n_pts) ==
    LET n == IF n_pts.type = "float" THEN n_pts.tenths \div 10 ELSE n_pts.v
    IN IF n % 2 = 0 THEN n + 1 ELSE n

\* medfilt.py lines 53-99
MedFilt(a) ==
    LET inp == a.inp IN
    IF inp.type = "NoneType" THEN Raise("ValueError", 54)
    ELSE IF ~IsDataArray(inp) THEN Raise("TypeError", 57)
    ELSE IF a.n_pts.type \notin {"float", "int"} THEN Raise("TypeError", 60)
    ELSE LET k == KernelSize(a.n_pts)
             nt == Len(inp.data)
             col(j) == [i \in 1..nt |-> inp.data[i][j]]
         IN IF inp.ndim = 2 /\ Comps(inp) = 1 THEN Raise("ValueError", 96)
            ELSE Return([inp EXCEPT !.data =
                            [i \in 1..nt |-> [j \in 1..Comps(inp) |-> MedFilt1(col(j), k)[i]]]])

\* pyrf.cross(x, y): the cross product of two series of 3-vectors
cross(x, y) ==
    IF x.ndim = 2 /\ y.ndim = 2 /\ Comps(x) = 3 /\ Comps(y) = 3
    THEN Return([x EXCEPT !.data = [i \in 1..Len(x.data) |-> Cross(x.data[i], y.data[i])]])
    ELSE Raise("ValueError", 83)

\* pyrf.ts_vec_xyz(time, data): a series of 3-vectors, data of shape (n, 3)
ts_vec_xyz(time, shape) ==
    IF shape = <<Len(time), 3>>
    THEN Return([type |-> "DataArray", ndim |-> 2, time |-> time, shape |-> shape])
    ELSE Raise("TypeError", 107)

\* len(x) != len(inp): x resampled to the time line of inp
Resampled(x, inp) == IF Len(x.time) # Len(inp.time) THEN resample(x, inp) ELSE x

\* mean.py lines 41-105: zv = norm(bb) is the series of magnitudes, which
\* line 83 hands to cross; with z given ss is a 0-d array, indexed by
\* ss[:, None] at line 90
Mean(a) ==
    IF a.inp.type = "NoneType" \/ a.r.type = "NoneType" \/ a.b.type = "NoneType"
    THEN Raise("ValueError", 42)
    ELSE IF ~IsDataArray(a.inp) THEN Raise("TypeError", 46)
    ELSE IF ~IsDataArray(a.r) THEN Raise("TypeError", 50)
    ELSE IF ~IsDataArray(a.b) THEN Raise("TypeError", 54)
    ELSE IF a.z.type # "NoneType" /\ ~IsDataArray(a.z) THEN Raise("TypeError", 61)
    ELSE LET rr == Resampled(a.r, a.inp)
             bb == Resampled(a.b, a.inp)
             zv == Norm(bb)
         IN IF zv.exc # "none" THEN zv
            ELSE IF a.z.type = "NoneType" THEN
                LET yv == cross(zv.val, rr)
                IN IF yv.exc # "none" THEN yv
                   ELSE Raise("ValueError", 93)
            ELSE LET zz == Resampled(a.z, a.inp)
                 IN IF zz.ndim = 2 /\ Comps(zz) \in {2, 3} /\ Comps(bb) \in {2, 3}
                    THEN Raise("IndexError", 90)
                    ELSE Raise("ValueError", 90)

\* convert_fac.py lines 73-78: the position as an (n, 3) array, a resampled
\* series, or refused
Position(r, b_bgd) ==
    IF r.type \in {"list", "ndarray"} /\ Len(r.v) = 3
    THEN Return([ndim |-> 2, comps |-> 3])
    ELSE IF IsDataArray(r)
    THEN Return([ndim |-> r.ndim, comps |-> Comps(r)])
    ELSE Raise("TypeError", 78)

\* convert_fac.py lines 56-111
ConvertFac(a) ==
    LET inp == a.inp IN
    IF inp.type = "NoneType" \/ a.b_bgd.type = "NoneType" THEN Raise("ValueError", 57)
    ELSE IF ~IsDataArray(inp) THEN Raise("TypeError", 60)
    ELSE IF ~IsDataArray(a.b_bgd) THEN Raise("TypeError", 63)
    ELSE LET b_bgd == Resampled(a.b_bgd, inp)
             r == Position(a.r, b_bgd)
             n == Len(inp.time)
         IN IF b_bgd.ndim < 2 THEN Raise("AxisError", 71)
            ELSE IF r.exc # "none" THEN r
            ELSE IF r.val.ndim < 2 THEN Raise("AxisError", 84)
            ELSE IF Comps(b_bgd) \notin {2, 3} \/ r.val.comps \notin {2, 3} THEN Raise("ValueError", 84)
            ELSE IF Comps(b_bgd) = 2 /\ r.val.comps = 2 THEN Raise("AxisError", 85)
            ELSE IF inp.ndim # 2 THEN Raise("ValueError", 89)
            ELSE IF Comps(inp) = 3
                 THEN IF Comps(b_bgd) # 3 THEN Raise("ValueError", 96)
                      ELSE Return([type |-> "DataArray", ndim |-> 2, time |-> inp.time,
                                   shape |-> <<n, 3>>])
            ELSE IF Comps(inp) = 1
                 THEN IF r.val.comps # 3 THEN Raise("IndexError", 104)
                      ELSE IF n \notin {1, 3} THEN Raise("ValueError", 104)
                      ELSE IF Comps(b_bgd) # 3 THEN Raise("IndexError", 105)
                      ELSE ts_vec_xyz(inp.time, <<3, n>>)
            ELSE Raise("TypeError", 109)

\* what a caller may pass where a DataArray is expected
NotDataArrays == {None} \cup {[type |-> t, v |-> <<1, 0, 0>>] : t \in {"list", "ndarray"}}

Fields15 == {Field(n, c) : n \in 1..MaxPts, c \in {0, 1, 2, 3}}

Vectors15 == {Field(n, c) : n \in {1, MaxPts}, c \in {0, 3}}

NormArgs == {[inp |-> i] : i \in Fields15 \cup NotDataArrays}

HistogramArgs ==
    {[inp |-> i, nbins |-> nb, normed |-> nm] :
        i \in Fields15 \cup NotDataArrays, nb \in {1, 2, 3}, nm \in BOOLEAN}

KernelSizes ==
    {[type |-> "int", v |-> n] : n \in 1..3} \cup {[type |-> "float", tenths |-> 25], [type |-> "str"]}

MedFiltArgs ==
    {[inp |-> i, n_pts |-> k] :
        i \in Fields15 \cup {Field(n, 9) : n \in 1..MaxPts} \cup NotDataArrays, k \in KernelSizes}

MeanArgs ==
    {[inp |-> i, r |-> r, b |-> b, z |-> z] :
        i \in Vectors15 \cup NotDataArrays, r \in Vectors15 \cup NotDataArrays,
        b \in Vectors15 \cup NotDataArrays,
        z \in {None, Field(MaxPts, 3), [type |-> "list", v |-> <<0, 0, 1>>]}}

ConvertFacArgs ==
    {[inp |-> i, b_bgd |-> b, r |-> r] :
        i \in Fields15 \cup NotDataArrays, b \in Vectors15 \cup NotDataArrays,
        r \in {None, [type |-> "list", v |-> <<1, 0, 0>>], [type |-> "list", v |-> <<1, 0>>],
               [type |-> "ndarray", v |-> <<1, 0, 0>>], Field(MaxPts, 3), Field(MaxPts, 0)}}

norm ==
    /\ op = "norm"
    /\ ret = NotCalled
    /\ ret' = Norm(arg.inp)
    /\ UNCHANGED <<op, arg>>

histogram ==
    /\ op = "histogram"
    /\ ret = NotCalled
    /\ ret' \in Histogram(arg)
    /\ UNCHANGED <<op, arg>>

medfilt ==
    /\ op = "medfilt"
    /\ ret = NotCalled
    /\ ret' = MedFilt(arg)
    /\ UNCHANGED <<op, arg>>

mean ==
    /\ op = "mean"
    /\ ret = NotCalled
    /\ ret' = Mean(arg)
    /\ UNCHANGED <<op, arg>>

convert_fac ==
    /\ op = "convert_fac"
    /\ ret = NotCalled
    /\ ret' = ConvertFac(arg)
    /\ UNCHANGED <<op, arg>>

(* ----------------------------- match_phibe_v --------------------------- *)
\* line 62, n.data *= 1e6: the values of the caller's array times 10^6
InCubicMetres(n) == [n EXCEPT !.exp10 = @ + 6]

\* lines 57-76: the data of an ndarray is a memoryview, which has no product
\* with a float; a DataArray is scaled in place at line 62 and refuses the
\* index [:, None] at line 70
MatchPhibeV(a) ==
    IF a.n.type = "ndarray" THEN Raise("TypeError", 62)
    ELSE IF a.n.dtype = "int64" THEN Raise("TypeError", 62)
    ELSE IF ~Broadcastable(a.int_e_dt.shape[2], Len(a.v)) THEN Raise("ValueError", 69)
    ELSE Raise("IndexError", 70)

\* the caller's argument objects after the call
MatchPhibeVArgs(a) ==
    IF a.n.type = "DataArray" /\ a.n.dtype = "float64"
    THEN [a EXCEPT !.n = InCubicMetres(@)]
    ELSE a

\* densities in cm^-3: the values v times 10^exp10
Densities ==
    {[type |-> k[1], dtype |-> k[2], v |-> [i \in 1..n |-> i], exp10 |-> 0] :
        k \in {<<"ndarray", "float64">>, <<"DataArray", "float64">>, <<"DataArray", "int64">>},
        n \in 1..MaxPts}

MatchPhibeVArgs0 ==
    {[b_0 |-> 10, b_z |-> [shape |-> <<nt, 1>>], int_e_dt |-> [shape |-> <<nt, k>>],
      n |-> n, v |-> [i \in 1..nv |-> 100 * i]] :
        nt \in 1..MaxPts, k \in {1, 2}, n \in Densities, nv \in 1..MaxPts}

match_phibe_v ==
    /\ op = "match_phibe_v"
    /\ ret = NotCalled
    /\ ret' = MatchPhibeV(arg)
    /\ arg' = MatchPhibeVArgs(arg)
    /\ UNCHANGED op

(* ----------------------------- get_feeps_omni -------------------------- *)
\* lines 18-23: the energy table of the species, in tenths of keV
Energies(dtype) ==
    IF dtype = "electron"
    THEN <<332, 519, 706, 894, 1071, 1252, 1465, 1713, 2002, 2340, 2734, 3194, 3732, 4360, 5092, 5758>>
    ELSE <<579, 768, 954, 1141, 1330, 1537, 1776, 2051, 2367, 2732, 3154, 3638, 4197, 4842, 5586, 6099>>

\* line 26: the energy correction per spacecraft, in tenths of keV
e_corr(specie) == IF specie = "e" THEN <<140, -10, -30, -30>> ELSE <<0, 0, 0, 0>>

\* line 28: the geometric factor per spacecraft, in hundredths
g_fact(specie) == IF specie = "e" THEN <<100, 100, 100, 100>> ELSE <<84, 100, 100, 100>>

\* the samples of the time line of one eye
OmniTimes == 2

\* get_feeps_oneeye: the (time, energy) series of one eye, flux or mask
get_feeps_oneeye(what, head, sen) ==
    [type |-> "DataArray", ndim |-> 2,
     data |-> [it \in 1..OmniTimes |-> [ie \in 1..16 |->
                 IF what = "mask" THEN (IF (sen + it + ie) % 3 = 0 THEN 1 ELSE 0)
                 ELSE Num((IF head = "top" THEN 100 ELSE 200) + 10 * sen + it + ie)]]]

\* lines 45-54 and 57-66: the data of one eye, NaN at the times the first
\* channel of its mask marks
MaskedEye(head, sen) ==
    LET eye == get_feeps_oneeye("flux", head, sen)
        mask == get_feeps_oneeye("mask", head, sen)
    IN [eye EXCEPT !.data = [it \in 1..OmniTimes |-> [ie \in 1..16 |->
                                IF mask.data[it][1] = 1 THEN NaN ELSE eye.data[it][ie]]]]

\* np.nanmean over a list of samples: the fraction sum / n of the samples
\* that are not NaN, nan when there is none
NanMean(s) ==
    LET kept == SelectSeq(s, LAMBDA x : ~IsNan(x))
    IN [nan |-> kept = <<>>, sum |-> SumSeq([k \in 1..Len(kept) |-> kept[k].v]), n |-> Len(kept)]

\* lines 68-74: one slot per active eye; every bottom slot is filled from
\* bot_it[tsen], tsen being the last top sensor
DallEyes(top_sensors, bot_sensors) ==
    LET tsen == top_sensors[Len(top_sensors)]
    IN [i \in 1..Len(top_sensors) |-> MaskedEye("top", top_sensors[i])]
       \o [i \in 1..Len(bot_sensors) |-> MaskedEye("bottom", tsen)]

\* xr.DataArray(data, coords=[time, energies], dims=["time", "energy"]): a
\* coordinate is one-dimensional
DataArray2(data, time, energies) ==
    IF time.ndim # 1 THEN Raise("ValueError", 84)
    ELSE Return([type |-> "DataArray", time |-> time, energy |-> energies, data |-> data])

\* lines 12-86
GetFeepsOmni(a) ==
    LET specie == IF a.var.dtype = "electron" THEN "e" ELSE "i"
        energies == [k \in 1..16 |-> Energies(a.var.dtype)[k] + e_corr(specie)[a.mms_id]]
        top_sensors == a.eyes.top
        bot_sensors == a.eyes.bottom
    IN IF top_sensors = <<>> THEN Raise("UnboundLocalError", 68)
       ELSE IF bot_sensors # <<>> /\ ~InSeq(top_sensors[Len(top_sensors)], bot_sensors)
       THEN Raise("KeyError", 74)
       ELSE LET dalleyes == DallEyes(top_sensors, bot_sensors)
                flux_omni == [it \in 1..OmniTimes |-> [ie \in 1..16 |->
                                [mean |-> NanMean([k \in 1..Len(dalleyes) |-> dalleyes[k].data[it][ie]]),
                                 g |-> g_fact(specie)[a.mms_id]]]]
            IN DataArray2(flux_omni, MaskedEye("top", top_sensors[1]), energies)

GetFeepsOmniArgs ==
    UNION { { [var |-> [dtype |-> dt, tmmode |-> tm, lev |-> "l2"], data_units |-> "flux",
               mms_id |-> id, eyes |-> e] :
                e \in get_feeps_active_eyes([tmmode |-> tm, dtype |-> dt]) } :
            id \in 1..4, tm \in {"srvy", "brst"}, dt \in {"electron", "ion"} }

get_feeps_omni ==
    /\ op = "get_feeps_omni"
    /\ ret = NotCalled
    /\ ret' = GetFeepsOmni(arg)
    /\ UNCHANGED <<op, arg>>

(* ------------------------------ specification -------------------------- *)
Init ==
    /\ ret = NotCalled
    /\ \/ op = "calculate_epsilon" /\ arg \in EpsilonArgs
       \/ op = "vdf_omni" /\ arg \in OmniArgs
       \/ op = "feeps_pitch_angles" /\ arg \in FeepsArgs
       \/ op = "time_clip" /\ arg \in TimeClipArgs
       \/ op = "extend_tint" /\ arg \in ExtendTintArgs
       \/ op = "integrate" /\ arg \in IntegrateArgs
       \/ op = "wave_fft" /\ arg \in WaveFftArgs
       \/ op = "mean_bins" /\ arg \in {a \in BinsArgs : a.copy = "pyrf"}
       \/ op = "median_bins" /\ arg \in BinsArgs
       \/ op = "rotate_tensor" /\ arg \in {[args |-> c] : c \in RotateTensorCalls}
       \/ op = "norm" /\ arg \in NormArgs
       \/ op = "histogram" /\ arg \in HistogramArgs
       \/ op = "medfilt" /\ arg \in MedFiltArgs
       \/ op = "mean" /\ arg \in MeanArgs
       \/ op = "convert_fac" /\ arg \in ConvertFacArgs
       \/ op = "match_phibe_v" /\ arg \in MatchPhibeVArgs0
       \/ op = "get_feeps_omni" /\ arg \in GetFeepsOmniArgs

Next ==
    \/ calculate_epsilon
    \/ vdf_omni
    \/ feeps_pitch_angles
    \/ time_clip
    \/ extend_tint
    \/ extend_tint_back
    \/ integrate
    \/ wave_fft
    \/ mean_bins
    \/ median_bins
    \/ rotate_tensor
    \/ norm
    \/ histogram
    \/ medfilt
    \/ mean
    \/ convert_fac
    \/ match_phibe_v
    \/ get_feeps_omni

Spec == Init /\ [][Next]_vars

(* ------------------------------- claims -------------------------------- *)
Called == ret.exc # "pending"

\* C1: calculate_epsilon raises ValueError when the specie of vdf is neither
\* ions nor electrons, for vdf, model_vdf, n and sc_pot on the same time line.
C1_InvalidSpecieValueError ==
    (op = "calculate_epsilon" /\ Called
        /\ arg.vdf.specie \notin {"e", "i"}
        /\ arg.n.time = arg.vdf.time /\ arg.sc_pot.time = arg.vdf.time)
    => ret.exc = "ValueError"

C1_Witness ==
    /\ op = "calculate_epsilon" /\ Called
    /\ arg.vdf.specie = "bazinga" /\ arg.vdf.n_en = 33 /\ arg.vdf.n_ph = 16
    /\ arg.n.time = arg.vdf.time
    /\ ret.exc = "ValueError" /\ ret.line = 83

\* C2: calculate_epsilon raises ValueError when n does not have the time line
\* of vdf.
C2_DifferentTimesValueError ==
    (op = "calculate_epsilon" /\ Called /\ arg.n.time # arg.vdf.time)
    => ret.exc = "ValueError"

\* C3: with 32 energy channels, specie ions or electrons, n and sc_pot on the
\* time line of vdf and no options, calculate_epsilon returns a time series
\* with one epsilon per time sample of vdf.
C3_ReturnsEpsilonPerSample ==
    (op = "calculate_epsilon" /\ Called
        /\ arg.vdf.n_en = 32 /\ arg.vdf.specie \in {"e", "i"}
        /\ arg.n.time = arg.vdf.time /\ arg.sc_pot.time = arg.vdf.time
        /\ arg.kwargs = <<>>)
    => (ret.exc = "none" /\ ret.val.time = arg.vdf.time /\ ret.val.n_data = Len(arg.vdf.time))

\* C4: vdf_omni(vdf, method) with method mean or sum and a vdf of 32 energies,
\* 32 azimuths and 16 elevations returns an array over (time, energy) with one
\* value per time sample and energy channel.
C4_OmniAcceptsMethod ==
    (op = "vdf_omni" /\ Called /\ Len(arg.args) = 2
        /\ arg.args[1].n_en = 32 /\ arg.args[1].n_ph = 32 /\ arg.args[1].n_th = 16)
    => (ret.exc = "none" /\ ret.val.dims = <<"time", "energy">>
        /\ ret.val.shape = <<Len(arg.args[1].time), 32>>)

\* C5: feeps_pitch_angles completes without raising for every data rate and
\* data type, and the first element of its result is a DataArray.
C5_PitchAnglesComplete ==
    (op = "feeps_pitch_angles" /\ Called)
    => (ret.exc = "none" /\ FirstElement(ret.val).type = "DataArray")

\* the entries of s whose time lies in [lo, hi], in order
RECURSIVE Within(_, _, _, _)
Within(s, times, lo, hi) ==
    IF s = <<>> THEN <<>>
    ELSE (IF lo <= Head(times) /\ Head(times) <= hi THEN <<Head(s)>> ELSE <<>>)
            \o Within(Tail(s), Tail(times), lo, hi)

T_start == parse(arg.tint.elems[1]).us * TickPerUs

T_stop == parse(arg.tint.elems[Len(arg.tint.elems)]).us * TickPerUs

C7_TintForms ==
    (op = "time_clip" /\ Called /\ arg.inp.type = "DataArray")
    => IF \/ arg.tint.type \in {"DataArray", "list"}
          \/ (arg.tint.type = "ndarray" /\ arg.tint.elems[1].cls = "datetime64")
       THEN ret.exc = "none"
       ELSE IF arg.tint.type = "ndarray" THEN TRUE
       ELSE ret.exc = "TypeError"

WholeMs(x) == x % TickPerMs = 0

ExtOf(a) == IF a.ext = <<>> THEN <<-60 * TickPerSec, 60 * TickPerSec>> ELSE a.ext

\* C8 as stated: extend_tint(tint, [a, b]) returns [start + a s, end + b s],
\* with ext omitted [start - 60 s, end + 60 s], and extending back by
\* [-a, -b] gives the instants of tint.
C8_ExtendExact ==
    (op = "extend_tint" /\ Called)
    => IF arg.leg = 1
       THEN ret.val = <<arg.tint[1] + ExtOf(arg)[1], arg.tint[2] + ExtOf(arg)[2]>>
       ELSE ret.val = arg.first

\* C8 amended: for bounds and extensions of whole milliseconds extend_tint
\* returns [start + a s, end + b s] (ext omitted: [start - 60 s, end + 60 s])
\* and extending back by [-a, -b] gives the instants of tint.
C8_ExtendToMillisecond ==
    (op = "extend_tint" /\ Called)
    => /\ (arg.leg = 1 /\ \A i \in 1..2 : WholeMs(arg.tint[i]) /\ WholeMs(ExtOf(arg)[i]))
            => ret.val = <<arg.tint[1] + ExtOf(arg)[1], arg.tint[2] + ExtOf(arg)[2]>>
       /\ (arg.leg = 2 /\ \A i \in 1..2 : WholeMs(arg.first[i]) /\ WholeMs(arg.ext[i]))
            => ret.val = arg.first

C8_Witness ==
    /\ op = "extend_tint" /\ Called /\ arg.leg = 2
    /\ \A i \in 1..2 : WholeMs(arg.first[i]) /\ WholeMs(arg.ext[i])
    /\ arg.ext[1] = 60 * TickPerSec /\ arg.ext[2] = -100 * TickPerSec
    /\ arg.first[1] < arg.first[2]
    /\ arg.tint = <<arg.first[1] - 60 * TickPerSec, arg.first[2] + 100 * TickPerSec>>
    /\ ret.val = arg.first

IsSeries == arg.inp.type = "DataArray"

\* C9: integrate called without time_step uses as threshold base the smallest
\* of all time steps of the input time series.
C9_DefaultStepIsSmallest ==
    (op = "integrate" /\ Called /\ IsSeries /\ arg.time_step = <<>>)
    => (ret.exc = "none" /\ ret.val.time_step = NpMin(NpDiff(arg.inp.time)))

\* C10: in integrate every step larger than 3*time_step is a data gap across
\* which the running integral does not change, and every other step adds
\* value*dt to it.
C10_GapsLeaveIntegral ==
    (op = "integrate" /\ Called /\ IsSeries /\ arg.time_step # <<>>
        /\ \A i \in 1..Len(arg.inp.data) : ~IsNan(arg.inp.data[i]))
    => /\ ret.exc = "none"
       /\ \A i \in 2..Len(arg.inp.time) :
            LET d == arg.inp.time[i] - arg.inp.time[i - 1]
            IN IF d > 3 * arg.time_step[1]
               THEN ret.val.data[i].v = ret.val.data[i - 1].v
               ELSE ret.val.data[i].v = ret.val.data[i - 1].v + arg.inp.data[i].v * d

\* C11: wave_fft returns its three results in the documented order (s, t, f):
\* the spectrogram, then the frame-centre times, then the frequencies.
C11_ReturnOrder ==
    (op = "wave_fft" /\ Called /\ ret.exc = "none")
    => /\ ret.val[1].name = "s" /\ Len(ret.val[1].shape) = 2
       /\ ret.val[2].name = "t"
       /\ ret.val[3].name = "f"

\* the dataset among the values a call of mean_bins hands back
ReturnedDataset == IF ret.val.type = "Dataset" THEN ret.val ELSE ret.val.items[3]

\* C12: mean_bins(x, y, bins) returns a dataset whose data[i] is the arithmetic
\* mean of the y values, signed as given, of the samples whose x falls in bin i.
C12_SignedMean ==
    (op = "mean_bins" /\ Called /\ arg.x.type = "DataArray" /\ arg.y.type = "DataArray")
    => /\ ret.exc = "none"
       /\ \A i \in 1..NBins(arg) :
            LET in_bin == Masked(arg.x.data, arg.y.data, 1, i - 1, NBins(arg))
            IN ReturnedDataset.data[i] = [nan |-> in_bin = <<>>, sum |-> SumSeq(in_bin),
                                          n |-> Len(in_bin)]

MedianBinsOf(copy, a) == IF copy = "pyrf" THEN MedianBins(a) ELSE MedianBinsBuild(a)

\* C13: median_bins called with x only behaves as median_bins(x, x, bins) and
\* returns a dataset with bins, data and sigma, in both copies of median_bins,
\* which return the same result for the same inputs.
C13_MedianBinsSelf ==
    (op = "median_bins" /\ Called /\ arg.x.type = "DataArray" /\ arg.y.type = "NoneType")
    => /\ ret.exc = "none"
       /\ ret.val.type = "Dataset"
       /\ ret = MedianBinsOf(arg.copy, [arg EXCEPT !.y = arg.x])
       /\ ret = MedianBinsOf("pyrf", arg)
       /\ ret = MedianBinsOf("build", arg)

\* the flag of a rotate_tensor call whose tensor arguments load
RotFlag == 
    IF LoadTensor(arg.args).exc = "none"
    THEN arg.args[LoadTensor(arg.args).val.pos + 1].s
    ELSE "none"

\* what follows the flag of a rotate_tensor call
RotRest == SubSeq(arg.args, LoadTensor(arg.args).val.pos + 2, Len(arg.args))

\* a call in one of the three documented forms: "fac" with a background field
\* and possibly "pp" or "qq", "rot" with one or three float vectors of three
\* components, "gse" with a spacecraft number
DocumentedCall ==
    \/ /\ RotFlag = "fac"
       /\ Len(RotRest) \in {1, 2}
       /\ RotRest[1].type = "DataArray"
       /\ Len(RotRest) = 2 => (IsStr(RotRest[2]) /\ RotRest[2].s \in {"pp", "qq"})
    \/ /\ RotFlag = "rot"
       /\ Len(RotRest) \in {1, 3}
       /\ \A k \in 1..Len(RotRest) : Len(RotRest[k].v) = 3 /\ RotRest[k].dtype # "int64"
    \/ /\ RotFlag = "gse"
       /\ Len(RotRest) = 1
       /\ RotRest[1].type = "int"

\* C14: a rotate_tensor call with flag "fac" and a background field, "rot" and
\* one or three direction vectors, or "gse" and a spacecraft number 1..4
\* returns the rotated tensor time series and does not raise
C14_ThreeFlagsReturn ==
    (op = "rotate_tensor" /\ Called /\ DocumentedCall)
    => /\ ret.exc = "none"
       /\ ret.val.type = "DataArray"
       /\ ret.val.time = arg.args[1].time

\* C18: a rotate_tensor call with flag "rot" leaves every argument object of
\* the caller, the direction vectors and the tensor, with the values it had
C18_RotLeavesArguments ==
    [][(op = "rotate_tensor" /\ RotFlag = "rot") => arg' = arg]_vars

\* the input-validating functions
Validating == {"norm", "histogram", "medfilt", "integrate", "convert_fac", "mean"}

\* the required inputs of the call: the parameters the None check names
Required ==
    CASE op = "convert_fac" -> <<arg.inp, arg.b_bgd>>
      [] op = "mean" -> <<arg.inp, arg.r, arg.b>>
      [] OTHER -> <<arg.inp>>

\* the raise statement of the None check
NoneCheck ==
    CASE op = "norm" -> 38
      [] op = "histogram" -> 28
      [] op = "medfilt" -> 54
      [] op = "integrate" -> 53
      [] op = "convert_fac" -> 57
      [] OTHER -> 42

\* the raise statements of the DataArray checks of the required inputs
TypeChecks ==
    CASE op = "norm" -> <<41>>
      [] op = "histogram" -> <<31>>
      [] op = "medfilt" -> <<57>>
      [] op = "integrate" -> <<56>>
      [] op = "convert_fac" -> <<60, 63>>
      [] OTHER -> <<46, 50, 54>>

SomeNone == \E k \in 1..Len(Required) : Required[k].type = "NoneType"

\* the first required input that is not a DataArray
FirstOther == CHOOSE k \in 1..Len(Required) :
                  /\ Required[k].type # "DataArray"
                  /\ \A j \in 1..(k - 1) : Required[j].type = "DataArray"

\* C15: norm, histogram, medfilt, integrate, convert_fac and mean raise
\* ValueError, at their None check, when a required input is None, and
\* otherwise TypeError, at the check of that input, when a required input is
\* not a DataArray; nothing is computed or returned before
C15_ValidateFirst ==
    (op \in Validating /\ Called)
    => /\ SomeNone => (ret.exc = "ValueError" /\ ret.line = NoneCheck)
       /\ (~SomeNone /\ \E k \in 1..Len(Required) : Required[k].type # "DataArray")
          => (ret.exc = "TypeError" /\ ret.line = TypeChecks[FirstOther])

C15_Witness ==
    /\ op = "convert_fac" /\ Called
    /\ arg.inp.type = "DataArray" /\ arg.b_bgd.type = "list"
    /\ ret = Raise("TypeError", 63)

\* C16: a match_phibe_v call leaves the density vector n of the caller with
\* the values it had, so that a second call with the same objects computes
\* from the same densities
C16_DensityUnchanged ==
    [][op = "match_phibe_v" => arg'.n = arg.n]_vars

\* C17: a calculate_epsilon call leaves vdf, model_vdf, n and sc_pot of the
\* caller with the values they had, so that a second call with the same
\* objects computes the same epsilon
C17_EpsilonLeavesArguments ==
    [][op = "calculate_epsilon"
        => /\ arg'.vdf = arg.vdf /\ arg'.model_vdf = arg.model_vdf
           /\ arg'.n = arg.n /\ arg'.sc_pot = arg.sc_pot]_vars

\* the mean over all active eyes, every top and every bottom eye once
OmniOfAllEyes(it, ie) ==
    NanMean([k \in 1..Len(arg.eyes.top) |-> MaskedEye("top", arg.eyes.top[k]).data[it][ie]]
            \o [k \in 1..Len(arg.eyes.bottom) |-> MaskedEye("bottom", arg.eyes.bottom[k]).data[it][ie]])

\* C19: for every table of active top and bottom eyes get_feeps_omni returns,
\* per time and energy channel, the NaN-ignoring mean over the masked data of
\* all active eyes, each taken once, times the geometric factor of the
\* species and spacecraft
C19_OmniOverAllEyes ==
    (op = "get_feeps_omni" /\ Called)
    => /\ ret.exc = "none"
       /\ \A it \in 1..OmniTimes, ie \in 1..16 :
            ret.val.data[it][ie] =
                [mean |-> OmniOfAllEyes(it, ie),
                 g |-> g_fact(IF arg.var.dtype = "electron" THEN "e" ELSE "i")[arg.mms_id]]

================================================================================
